---- MODULE Spec2Model ----
(***************************************************************************)
(* Koch curve and Koch snowflake (koch.py).                                *)
(*                                                                         *)
(* Coordinates are elements of the field Q(sqrt 3), which is closed under  *)
(* every arithmetic operation koch.py performs (rational scaling, adding,  *)
(* multiplying by sqrt(3)/6).  A number (p + q*sqrt(3))/d is the triple    *)
(* <<p, q, d>> in lowest terms with d > 0, so two numbers are equal iff    *)
(* their triples are equal.  A point is a pair <<x, y>> of numbers.        *)
(***************************************************************************)
EXTENDS Integers, Sequences, FiniteSets, TLC

(* ---------------- bounds of the model ---------------- *)
MaxGen == 3
NegGens == 2
GridMax == 1
IrrMax == 1
MaxLen == 2

(* ---------------- arithmetic of numpy scalars ---------------- *)
Abs(k) == IF k < 0 THEN -k ELSE k

RECURSIVE GCD(_, _)
GCD(u, v) == IF v = 0 THEN u ELSE GCD(v, u % v)

Norm(p, q, d) ==
    LET g == GCD(GCD(Abs(p), Abs(q)), Abs(d))
        sg == IF d < 0 THEN -1 ELSE 1
    IN <<(sg * p) \div g, (sg * q) \div g, (sg * d) \div g>>

Whole(k) == <<k, 0, 1>>
Rat(k, m) == Norm(k, 0, m)
Sqrt3 == <<0, 1, 1>>

Add(u, v) == Norm(u[1] * v[3] + v[1] * u[3], u[2] * v[3] + v[2] * u[3], u[3] * v[3])
Neg(u) == <<-u[1], -u[2], u[3]>>
Sub(u, v) == Add(u, Neg(v))
Mul(u, v) == Norm(u[1] * v[1] + 3 * u[2] * v[2], u[1] * v[2] + u[2] * v[1], u[3] * v[3])
DivInt(u, k) == Norm(u[1], u[2], u[3] * k)

(* ---------------- arithmetic of numpy arrays of shape (2,) ---------------- *)
Pt(k, m) == <<Whole(k), Whole(m)>>
VAdd(v, w) == <<Add(v[1], w[1]), Add(v[2], w[2])>>
VSub(v, w) == <<Sub(v[1], w[1]), Sub(v[2], w[2])>>
VScale(c, v) == <<Mul(c, v[1]), Mul(c, v[2])>>
VDivInt(v, k) == <<DivInt(v[1], k), DivInt(v[2], k)>>
Dot(M, v) == <<Add(Mul(M[1][1], v[1]), Mul(M[1][2], v[2])),
               Add(Mul(M[2][1], v[1]), Mul(M[2][2], v[2]))>>

(* ---------------- third ---------------- *)
RMut == <<<<Whole(0), Whole(1)>>, <<Whole(-1), Whole(0)>>>>
R == <<<<Whole(0), Whole(-1)>>, <<Whole(1), Whole(0)>>>>

thirdMut(a, b) ==
    LET x == a
        y == b
    IN <<x,
         VAdd(VScale(Rat(2, 3), x), VScale(Rat(1, 3), y)),
         VAdd(VDivInt(VAdd(x, y), 2), VScale(DivInt(Sqrt3, 3), Dot(R, VSub(y, x)))),
         VAdd(VScale(Rat(1, 3), x), VScale(Rat(2, 3), y)),
         y>>

third(a, b) ==
    LET x == a
        y == b
    IN <<x,
         VAdd(VScale(Rat(2, 3), x), VScale(Rat(1, 3), y)),
         VAdd(VDivInt(VAdd(x, y), 2), VScale(DivInt(Sqrt3, 6), Dot(R, VSub(y, x)))),
         VAdd(VScale(Rat(1, 3), x), VScale(Rat(2, 3), y)),
         y>>

(* ---------------- constants of koch and flake ---------------- *)
KochBaseMut == <<Pt(0, 0), Pt(1, 0)>>
KochBase == <<Pt(0, 0), Pt(3, 0)>>
KochCloseMut == Pt(0, 0)
KochClose == Pt(3, 0)
FlakeBase == <<Pt(0, 0), Pt(3, 0), <<Rat(3, 2), DivInt(Mul(Whole(-3), Sqrt3), 2)>>, Pt(0, 0)>>
FlakeCloseMut == Pt(3, 0)
FlakeClose == Pt(0, 0)

KochPassesMut(m) == 0..m
KochPasses(m) == 0..(m - 1)
FlakePasses(m) == 0..(m - 1)

DelLastMut(t) == t
DelLast(t) == SubSeq(t, 1, Len(t) - 1)

Coord0(p) == p[1]
Coord1Mut(p) == p[1]
Coord1(p) == p[2]

(* ---------------- state ---------------- *)
VARIABLES fn, n, pc, i, L, K, l, s, px, plotted,
          argA, argB, tres, tpc,
          argL, ci, xCoord, yCoord, cres, cpc

vars == <<fn, n, pc, i, L, K, l, s, px, plotted,
          argA, argB, tres, tpc,
          argL, ci, xCoord, yCoord, cres, cpc>>
buildVars == <<fn, n, pc, i, L, K, l, s, px, plotted>>
thirdVars == <<argA, argB, tres, tpc>>
converVars == <<argL, ci, xCoord, yCoord, cres, cpc>>

None == <<>>

(* the parts of the state a specification does not exercise *)
IdleBuild ==
    /\ fn = "none" /\ n = 0 /\ pc = "idle" /\ i = 0 /\ L = <<>> /\ K = <<>>
    /\ l = 0 /\ s = 0 /\ px = None /\ plotted = None
IdleThird == argA = Pt(0, 0) /\ argB = Pt(0, 0) /\ tres = None /\ tpc = "idle"
IdleConver ==
    /\ argL = <<>> /\ ci = 0 /\ xCoord = <<>> /\ yCoord = <<>>
    /\ cres = None /\ cpc = "idle"

(* ---------------- conver(L), one loop iteration per step ---------------- *)
ConverEnter(P) ==
    /\ argL' = P
    /\ xCoord' = <<>>
    /\ yCoord' = <<>>
    /\ ci' = 0
    /\ cres' = None
    /\ cpc' = "for_i"

ConverStep ==
    /\ cpc = "for_i"
    /\ ci \in 0..(Len(argL) - 1)
    /\ xCoord' = Append(xCoord, Coord0(argL[ci + 1]))
    /\ yCoord' = Append(yCoord, Coord1(argL[ci + 1]))
    /\ ci' = ci + 1
    /\ UNCHANGED <<argL, cres, cpc, buildVars, thirdVars>>

ConverReturn ==
    /\ cpc = "for_i"
    /\ ci \notin 0..(Len(argL) - 1)
    /\ cres' = <<xCoord, yCoord>>
    /\ cpc' = "returned"
    /\ UNCHANGED <<argL, ci, xCoord, yCoord, buildVars, thirdVars>>

(* ---------------- koch(n) ---------------- *)
KochBeginPass ==
    /\ fn = "koch" /\ pc = "for_i"
    /\ i \in KochPasses(n)
    /\ K' = <<>>
    /\ l' = Len(L)
    /\ s' = 0
    /\ pc' = "for_s"
    /\ UNCHANGED <<fn, n, i, L, px, plotted, thirdVars, converVars>>

KochSegment ==
    /\ fn = "koch" /\ pc = "for_s"
    /\ s \in 0..(l - 2)
    /\ LET t == third(L[s + 1], L[s + 2])
       IN K' = K \o DelLast(t)
    /\ s' = s + 1
    /\ UNCHANGED <<fn, n, pc, i, L, l, px, plotted, thirdVars, converVars>>

KochAppend ==
    /\ fn = "koch" /\ pc = "for_s"
    /\ s \notin 0..(l - 2)
    /\ K' = Append(K, KochClose)
    /\ pc' = "assign"
    /\ UNCHANGED <<fn, n, i, L, l, s, px, plotted, thirdVars, converVars>>

KochAssign ==
    /\ fn = "koch" /\ pc = "assign"
    /\ L' = K
    /\ i' = i + 1
    /\ pc' = "for_i"
    /\ UNCHANGED <<fn, n, K, l, s, px, plotted, thirdVars, converVars>>

KochPlotXs ==
    /\ fn = "koch" /\ pc = "for_i"
    /\ i \notin KochPasses(n)
    /\ ConverEnter(L)
    /\ pc' = "plot_xs"
    /\ UNCHANGED <<fn, n, i, L, K, l, s, px, plotted, thirdVars>>

KochPlotYs ==
    /\ fn = "koch" /\ pc = "plot_xs" /\ cpc = "returned"
    /\ px' = cres[1]
    /\ ConverEnter(L)
    /\ pc' = "plot_ys"
    /\ UNCHANGED <<fn, n, i, L, K, l, s, plotted, thirdVars>>

KochPlot ==
    /\ fn = "koch" /\ pc = "plot_ys" /\ cpc = "returned"
    /\ plotted' = [xlim |-> <<0, 3>>, ylim |-> <<0, 3>>, axis |-> "equal",
                   xs |-> px, ys |-> cres[2]]
    /\ cpc' = "idle"
    /\ pc' = "done"
    /\ UNCHANGED <<fn, n, i, L, K, l, s, px, thirdVars,
                   argL, ci, xCoord, yCoord, cres>>

(* ---------------- flake(n) ---------------- *)
FlakeBeginPass ==
    /\ fn = "flake" /\ pc = "for_i"
    /\ i \in FlakePasses(n)
    /\ K' = <<>>
    /\ l' = Len(L)
    /\ s' = 0
    /\ pc' = "for_s"
    /\ UNCHANGED <<fn, n, i, L, px, plotted, thirdVars, converVars>>

FlakeSegment ==
    /\ fn = "flake" /\ pc = "for_s"
    /\ s \in 0..(l - 2)
    /\ LET t == third(L[s + 1], L[s + 2])
       IN K' = K \o DelLast(t)
    /\ s' = s + 1
    /\ UNCHANGED <<fn, n, pc, i, L, l, px, plotted, thirdVars, converVars>>

FlakeAppend ==
    /\ fn = "flake" /\ pc = "for_s"
    /\ s \notin 0..(l - 2)
    /\ K' = Append(K, FlakeClose)
    /\ pc' = "assign"
    /\ UNCHANGED <<fn, n, i, L, l, s, px, plotted, thirdVars, converVars>>

FlakeAssign ==
    /\ fn = "flake" /\ pc = "assign"
    /\ L' = K
    /\ i' = i + 1
    /\ pc' = "for_i"
    /\ UNCHANGED <<fn, n, K, l, s, px, plotted, thirdVars, converVars>>

FlakePlotXs ==
    /\ fn = "flake" /\ pc = "for_i"
    /\ i \notin FlakePasses(n)
    /\ ConverEnter(L)
    /\ pc' = "plot_xs"
    /\ UNCHANGED <<fn, n, i, L, K, l, s, px, plotted, thirdVars>>

FlakePlotYs ==
    /\ fn = "flake" /\ pc = "plot_xs" /\ cpc = "returned"
    /\ px' = cres[1]
    /\ ConverEnter(L)
    /\ pc' = "plot_ys"
    /\ UNCHANGED <<fn, n, i, L, K, l, s, plotted, thirdVars>>

FlakePlot ==
    /\ fn = "flake" /\ pc = "plot_ys" /\ cpc = "returned"
    /\ plotted' = [xlim |-> <<-3, 3>>, ylim |-> <<-3, 3>>, axis |-> "equal",
                   xs |-> px, ys |-> cres[2]]
    /\ cpc' = "idle"
    /\ pc' = "done"
    /\ UNCHANGED <<fn, n, i, L, K, l, s, px, thirdVars,
                   argL, ci, xCoord, yCoord, cres>>

(* ---------------- specification of koch(n) and flake(n) ---------------- *)
Init ==
    /\ fn \in {"koch", "flake"}
    /\ n \in (-NegGens)..MaxGen
    /\ L = IF fn = "koch" THEN KochBase ELSE FlakeBase
    /\ i = 0
    /\ K = <<>>
    /\ l = 0
    /\ s = 0
    /\ pc = "for_i"
    /\ px = None
    /\ plotted = None
    /\ IdleThird
    /\ IdleConver

Next ==
    \/ KochBeginPass
    \/ KochSegment
    \/ KochAppend
    \/ KochAssign
    \/ KochPlotXs
    \/ KochPlotYs
    \/ KochPlot
    \/ FlakeBeginPass
    \/ FlakeSegment
    \/ FlakeAppend
    \/ FlakeAssign
    \/ FlakePlotXs
    \/ FlakePlotYs
    \/ FlakePlot
    \/ ConverStep
    \/ ConverReturn

Spec == Init /\ [][Next]_vars

(* ---------------- specification of third(a, b) on a grid of points ---------------- *)
GridNums == {<<p, q, 1>> : p \in (-GridMax)..GridMax, q \in 0..IrrMax}
GridPoints == GridNums \X GridNums

InitThird ==
    /\ argA \in GridPoints
    /\ argB \in GridPoints
    /\ tres = None
    /\ tpc = "call"
    /\ IdleBuild
    /\ IdleConver

ThirdCall ==
    /\ tpc = "call"
    /\ tres' = third(argA, argB)
    /\ tpc' = "returned"
    /\ UNCHANGED <<argA, argB, buildVars, converVars>>

NextThird == ThirdCall

SpecThird == InitThird /\ [][NextThird]_vars

(* ---------------- specification of conver(L) on short lists of points ---------------- *)
ListPoints == ((-1)..1) \X (0..1)

RECURSIVE SeqsUpTo(_, _)
SeqsUpTo(S, k) ==
    IF k = 0 THEN {<<>>}
    ELSE LET shorter == SeqsUpTo(S, k - 1)
         IN shorter \cup {Append(q, e) : q \in shorter, e \in S}

InitConver ==
    /\ argL \in SeqsUpTo(ListPoints, MaxLen)
    /\ xCoord = <<>>
    /\ yCoord = <<>>
    /\ ci = 0
    /\ cres = None
    /\ cpc = "for_i"
    /\ IdleBuild
    /\ IdleThird

NextConver ==
    \/ ConverStep
    \/ ConverReturn

SpecConver == InitConver /\ [][NextConver]_vars

(* ======================= properties ======================= *)
RECURSIVE Pow4(_)
Pow4(k) == IF k <= 0 THEN 1 ELSE 4 * Pow4(k - 1)

BaseSegments == IF fn = "koch" THEN 1 ELSE 3
Origin == <<<<0, 0, 1>>, <<0, 0, 1>>>>
Three0 == <<<<3, 0, 1>>, <<0, 0, 1>>>>
Looped == pc \in {"plot_xs", "plot_ys", "done"}

(* C1: for n >= 0 the polyline that koch(n) builds from its 1 base segment *)
(* and flake(n) from its 3 base segments has exactly L0 * 4^n segments,    *)
(* that is L0 * 4^n + 1 points, once the n passes are over; at the head of *)
(* the generation loop, after i passes, it has L0 * 4^i + 1 points.        *)
C1_SegmentCount ==
    /\ pc = "for_i" => Len(L) = BaseSegments * Pow4(i) + 1
    /\ (Looped /\ n >= 0) => Len(L) = BaseSegments * Pow4(n) + 1

C1_Witness ==
    /\ pc = "done" /\ fn = "flake" /\ n >= 2
    /\ Len(L) = 3 * Pow4(n) + 1
    /\ Len(plotted.xs) = 3 * Pow4(n) + 1

(* C2: in koch, after every generation, the polyline starts at (0,0) and *)
(* ends at (3,0), the first and last points of the base.                 *)
C2_KochEndpoints ==
    fn = "koch" => (Len(L) >= 2 /\ L[1] = Origin /\ L[Len(L)] = Three0)

C2_Witness ==
    /\ fn = "koch" /\ pc = "for_i" /\ i >= 2
    /\ L[1] = Origin /\ L[Len(L)] = Three0

(* C3: in flake, after every generation, the first point of the polyline *)
(* equals its last point: the curve stays closed.                        *)
C3_FlakeClosed ==
    fn = "flake" => (Len(L) >= 2 /\ L[1] = L[Len(L)])

C3_Witness ==
    /\ fn = "flake" /\ pc = "for_i" /\ i >= 2
    /\ L[1] = L[Len(L)]

(* C4: with generations = 0 no pass runs and the polyline drawn is the    *)
(* base unchanged: [(0,0),(3,0)] for koch, the triangle's four points     *)
(* (first vertex repeated) for flake.                                     *)
Triangle == <<Origin, Three0, <<<<3, 0, 2>>, <<0, -3, 2>>>>, Origin>>

C4_ZeroGenerations ==
    (n = 0 /\ Looped) =>
        /\ i = 0 /\ K = <<>>
        /\ fn = "koch" => L = <<Origin, Three0>>
        /\ fn = "flake" => L = Triangle
        /\ (pc = "done" /\ fn = "koch") =>
              /\ plotted.xs = <<<<0, 0, 1>>, <<3, 0, 1>>>>
              /\ plotted.ys = <<<<0, 0, 1>>, <<0, 0, 1>>>>
        /\ (pc = "done" /\ fn = "flake") =>
              /\ plotted.xs = <<<<0, 0, 1>>, <<3, 0, 1>>, <<3, 0, 2>>, <<0, 0, 1>>>>
              /\ plotted.ys = <<<<0, 0, 1>>, <<0, 0, 1>>, <<0, -3, 2>>, <<0, 0, 1>>>>

C4_Witness ==
    /\ n = 0 /\ pc = "done" /\ fn = "koch"
    /\ plotted.xs = <<<<0, 0, 1>>, <<3, 0, 1>>>>

(* C5: a negative generation count is rejected; koch and flake never draw *)
(* anything for it.                                                       *)
C5_NegativeRejected ==
    n < 0 => (pc # "done" /\ plotted = None)

(* C6: third(a,b) returns exactly five points, in order: a, (2a+b)/3, the *)
(* apex (a+b)/2 + (sqrt(3)/6)*(-dy,dx) with (dx,dy) = b-a, (a+2b)/3, b;   *)
(* third((0,0),(1,0)) = [(0,0),(1/3,0),(1/2,sqrt(3)/6),(2/3,0),(1,0)].    *)
Sqrt3Sixth == <<0, 1, 6>>

C6_ThirdPoints ==
    tpc = "returned" =>
        LET ax == argA[1]
            ay == argA[2]
            bx == argB[1]
            by == argB[2]
            dx == Sub(bx, ax)
            dy == Sub(by, ay)
        IN /\ Len(tres) = 5
           /\ tres[1] = argA
           /\ tres[2] = <<DivInt(Add(Add(ax, ax), bx), 3), DivInt(Add(Add(ay, ay), by), 3)>>
           /\ tres[3] = <<Sub(DivInt(Add(ax, bx), 2), Mul(Sqrt3Sixth, dy)),
                          Add(DivInt(Add(ay, by), 2), Mul(Sqrt3Sixth, dx))>>
           /\ tres[4] = <<DivInt(Add(ax, Add(bx, bx)), 3), DivInt(Add(ay, Add(by, by)), 3)>>
           /\ tres[5] = argB
           /\ (argA = Origin /\ argB = <<<<1, 0, 1>>, <<0, 0, 1>>>>) =>
                 tres = <<Origin,
                          <<<<1, 0, 3>>, <<0, 0, 1>>>>,
                          <<<<1, 0, 2>>, <<0, 1, 6>>>>,
                          <<<<2, 0, 3>>, <<0, 0, 1>>>>,
                          <<<<1, 0, 1>>, <<0, 0, 1>>>>>>

C6_Witness ==
    /\ tpc = "returned"
    /\ argA = Origin /\ argB = <<<<1, 0, 1>>, <<0, 0, 1>>>>
    /\ tres[3] = <<<<1, 0, 2>>, <<0, 1, 6>>>>

(* C7: the four segments of third(a,b) all have length |b-a|/3 and the    *)
(* apex lies at perpendicular distance |b-a|*sqrt(3)/6 from the line a-b. *)
(* Lengths are compared by their squares: |s|^2 = |d|^2/9 and             *)
(* cross(d, apex-a)^2 = |d|^2 * (|d|^2/12).                               *)
SqLen(v) == Add(Mul(v[1], v[1]), Mul(v[2], v[2]))
Cross(v, w) == Sub(Mul(v[1], w[2]), Mul(v[2], w[1]))

C8_ConverSplits ==
    cpc = "returned" =>
        /\ Len(cres) = 2
        /\ Len(cres[1]) = Len(argL)
        /\ Len(cres[2]) = Len(argL)
        /\ \A k \in 1..Len(argL) :
              cres[1][k] = argL[k][1] /\ cres[2][k] = argL[k][2]

C8_Witness ==
    /\ cpc = "returned" /\ pc = "idle"
    /\ Len(argL) >= 2
    /\ argL[1] # argL[2]
    /\ argL[1][1] # argL[1][2]
    /\ cres[1][2] = argL[2][1] /\ cres[2][1] = argL[1][2]

(* C9: in one pass over a polyline L of m segments every segment adds     *)
(* exactly four points to K, so K[4s] = L[s] for s in 0..m-1 and          *)
(* K[4m] = L[m] (0-based): the old points survive in order, every shared  *)
(* joint occurs exactly once in K and no point is repeated in a row.      *)
C9_PassKeepsPoints ==
    /\ pc = "for_s" =>
          /\ Len(K) = 4 * s
          /\ \A q \in 0..(s - 1) : K[4 * q + 1] = L[q + 1]
    /\ pc = "assign" =>
          LET m == Len(L) - 1
          IN /\ Len(K) = 4 * m + 1
             /\ \A q \in 0..m : K[4 * q + 1] = L[q + 1]
             /\ \A q \in 1..(m - 1) :
                   Cardinality({k \in 1..Len(K) : K[k] = L[q + 1]}) = 1
             /\ \A k \in 1..(Len(K) - 1) : K[k] # K[k + 1]

C9_Witness ==
    /\ pc = "assign" /\ fn = "flake" /\ i >= 1
    /\ Len(K) = 4 * (Len(L) - 1) + 1
    /\ K[5] = L[2]

(* C10: the point appended once all segments are processed equals the     *)
(* last point of the polyline the pass started from, and in flake also    *)
(* its first point.                                                       *)
C10_AppendedIsLast ==
    pc = "assign" =>
        /\ K[Len(K)] = L[Len(L)]
        /\ fn = "flake" => K[Len(K)] = L[1]

C10_Witness ==
    /\ pc = "assign" /\ fn = "koch" /\ i >= 1
    /\ K[Len(K)] = L[Len(L)]

====
